---- MODULE Spec2Model ----
(***************************************************************************)
(* Model of soe_webhooks.py: process_webhooks, the description parser, and *)
(* strip_html, the normalizer it uses.  A Python str is modelled as the    *)
(* sequence of its characters, so that startswith, split, replace, strip,  *)
(* "in" and re.sub are computed the way Python computes them.              *)
(***************************************************************************)
EXTENDS Naturals, Sequences, FiniteSets

VARIABLES webhook_rows, i, webhooks, description, channel, tags, activities, pc

vars == <<webhook_rows, i, webhooks, description, channel, tags, activities, pc>>

(***************************************************************************)
(* Bounds of the model.                                                    *)
(***************************************************************************)
\* words between the prefix and the delimiter of a generated description
MaxWords == 3
\* rows of a generated batch
MaxRows == 3

(***************************************************************************)
(* String literals of the program.                                         *)
(***************************************************************************)
s_all_prefix == <<"A","l","l"," ","p","o","s","t"," ","a","c","t","i","v","i","t","y"," ","t","o">>
s_all_split == s_all_prefix \o <<" ">>
s_any == <<"A","n","y"," ">>
s_to == <<" ","t","o"," ">>
s_posts_to == <<"p","o","s","t","s"," ","t","o">>
s_posts_split == <<" ">> \o s_posts_to \o <<" ">>
s_synonyms == <<"(","a","d","d","e","d"," ","v","i","a"," ","s","y","n","o","n","y","m","s",")"," ">>
s_all == <<"a","l","l">>
s_space == <<" ">>
s_comma == <<",">>
edited_questions == <<"e","d","i","t","e","d"," ","q","u","e","s","t","i","o","n","s">>
updated_answers == <<"u","p","d","a","t","e","d"," ","a","n","s","w","e","r","s">>
accepted_answers == <<"a","c","c","e","p","t","e","d"," ","a","n","s","w","e","r","s">>
questions == <<"q","u","e","s","t","i","o","n","s">>
answers == <<"a","n","s","w","e","r","s">>
comments == <<"c","o","m","m","e","n","t","s">>

activity_types ==
  <<edited_questions, updated_answers, accepted_answers, questions, answers, comments>>

(***************************************************************************)
(* Python str operations on character sequences.                           *)
(***************************************************************************)
MinOf(S) == CHOOSE x \in S : \A y \in S : x <= y

\* str.find: the first index at which p occurs in s, 0 when it does not
Find(s, p) ==
  LET C == {k \in 1..(Len(s) + 1 - Len(p)) :
              s[k] = p[1] /\ SubSeq(s, k, k + Len(p) - 1) = p}
  IN IF Len(p) > Len(s) \/ C = {} THEN 0 ELSE MinOf(C)

\* p in s
Contains(s, p) == Find(s, p) # 0

\* s.startswith(p)
StartsWith(s, p) == Len(s) >= Len(p) /\ SubSeq(s, 1, Len(p)) = p

\* s.split(sep), sep non-empty: the list of the parts
RECURSIVE Split(_, _)
Split(s, sep) ==
  LET k == Find(s, sep)
  IN IF k = 0 THEN <<s>>
     ELSE <<SubSeq(s, 1, k - 1)>> \o Split(SubSeq(s, k + Len(sep), Len(s)), sep)

\* s.replace(old, new): every non-overlapping occurrence, left to right
RECURSIVE Replace(_, _, _)
Replace(s, old, new) ==
  LET k == Find(s, old)
  IN IF k = 0 THEN s
     ELSE SubSeq(s, 1, k - 1) \o new
          \o Replace(SubSeq(s, k + Len(old), Len(s)), old, new)

IsSpace(c) == c \in {" ", "\t", "\n", "\r"}

\* s.strip(): leading and trailing whitespace removed
Strip(s) ==
  IF \A k \in 1..Len(s) : IsSpace(s[k]) THEN <<>>
  ELSE SubSeq(s,
         CHOOSE k \in 1..Len(s) :
           ~IsSpace(s[k]) /\ \A j \in 1..(k - 1) : IsSpace(s[j]),
         CHOOSE k \in 1..Len(s) :
           ~IsSpace(s[k]) /\ \A j \in (k + 1)..Len(s) : IsSpace(s[j]))

\* the end of the match of '<[^<]+?>' that starts at s[1] = "<": the nearest
\* ">" with at least one character, none of them "<", in between; 0 if none
TagEnd(s) ==
  LET C == {j \in 3..Len(s) : s[j] = ">" /\ \A k \in 2..(j - 1) : s[k] # "<"}
  IN IF C = {} THEN 0 ELSE MinOf(C)

\* re.sub('<[^<]+?>', '', s)
RECURSIVE ReSubTags(_)
ReSubTags(s) ==
  IF \A k \in 1..Len(s) : s[k] # "<" THEN s
  ELSE IF Head(s) = "<" /\ TagEnd(s) # 0
       THEN ReSubTags(SubSeq(s, TagEnd(s) + 1, Len(s)))
       ELSE <<Head(s)>> \o ReSubTags(Tail(s))

strip_html(text) ==
  Strip(Replace(Replace(ReSubTags(text), <<"\n">>, <<>>), <<"\r">>, <<>>))

\* lines 163-164: the normalized description of a cell text
Normalize(text) ==
  Replace(Replace(strip_html(text), s_synonyms, <<>>), s_comma, <<>>)

(***************************************************************************)
(* The steps of the loop body of process_webhooks, as functions of the     *)
(* local variable description.                                             *)
(***************************************************************************)
\* line 169: description.split('All post activity to ')
AllParts(d) == Split(d, s_all_split)

\* line 171: description.split('Any ')
AnyParts(d) == Split(d, s_any)

\* line 172: description.split(' to ')
ToParts(d) == Split(d, s_to)

\* the tag list cut at ' to ' instead of ' posts to '
PostsTags_SplitTo(d) == Split(Split(d, s_to)[1], s_space)

\* line 175: description.split(' posts to ')[0].split(' ')
PostsTags(d) == Split(Split(d, s_posts_split)[1], s_space)

\* the scan with the matched phrase left in the description
RECURSIVE ScanActivities_NoRemove(_, _, _)
ScanActivities_NoRemove(k, d, acts) ==
  IF k > Len(activity_types) THEN [description |-> d, activities |-> acts]
  ELSE IF Contains(d, activity_types[k])
       THEN ScanActivities_NoRemove(k + 1, d, Append(acts, activity_types[k]))
       ELSE ScanActivities_NoRemove(k + 1, d, acts)

\* lines 183-187: the scan of the vocabulary from its k-th phrase on; a phrase
\* found is recorded and removed from the description, which is then stripped
RECURSIVE ScanActivities(_, _, _)
ScanActivities(k, d, acts) ==
  IF k > Len(activity_types) THEN [description |-> d, activities |-> acts]
  ELSE IF Contains(d, activity_types[k])
       THEN ScanActivities(k + 1, Strip(Replace(d, activity_types[k], <<>>)),
                           Append(acts, activity_types[k]))
       ELSE ScanActivities(k + 1, d, acts)

\* lines 188-191
ExplicitTags(d) == IF d # <<>> THEN Split(d, s_space) ELSE <<s_all>>

\* lines 169, 171, 172: the index [1] of a one-element list raises IndexError
RaisesIndexError(d) ==
  IF StartsWith(d, s_all_prefix) THEN Len(AllParts(d)) < 2
  ELSE IF Len(AnyParts(d)) < 2 THEN TRUE
  ELSE Len(ToParts(AnyParts(d)[2])) < 2

\* lines 193-200
Webhook(row, ch, tg, acts) ==
  [type |-> strip_html(row.type), channel |-> ch, tags |-> tg,
   activities |-> acts, creator |-> row.creator,
   creation_date |-> row.creation_date]

\* the record put in front of the list
PrependWebhook(ws, w) == <<w>> \o ws

\* line 201: webhooks.append(webhook)
AppendWebhook(ws, w) == Append(ws, w)

(***************************************************************************)
(* The rows.  The description cell is its text nodes in order: a prefix,   *)
(* words, a delimiter and a channel; .text is their concatenation, the     *)
(* words joined the way the page joins them.                               *)
(***************************************************************************)
IsPhrase(w) == \E k \in 1..Len(activity_types) : activity_types[k] = w

RECURSIVE JoinWords(_)
JoinWords(ws) ==
  IF ws = <<>> THEN <<>>
  ELSE IF Len(ws) = 1 THEN ws[1]
  ELSE ws[1]
       \o (IF IsPhrase(ws[1]) /\ IsPhrase(ws[2]) THEN <<",", " ">> ELSE <<" ">>)
       \o JoinWords(Tail(ws))

\* columns[2].text
Text(cell) == cell.prefix \o JoinWords(cell.words) \o cell.delim \o cell.chan

\* lines 163-164
Description(row) == Normalize(Text(row.cell))

w_aws == <<"a","w","s">>
w_k8 == <<"k","8">>
w_k8_syn == w_k8 \o <<" ","(","a","d","d","e","d"," ","v","i","a"," ","s","y","n","o","n","y","m","s",")">>
w_to == <<"t","o">>
p_some == <<"S","o","m","e"," ">>
p_some_any == p_some \o s_any
c_x == <<"#","x">>
c_bold == <<"<","b",">","#","x","<","/","b",">","\n">>
c_a_to_b == <<"a"," ","t","o"," ","b">>
c_any == <<"A","n","y"," ","y">>
c_all == <<"a"," ">> \o s_all_split \o <<"b">>
t_slack == <<"S","l","a","c","k">>
t_teams == <<"<","b",">","T","e","a","m","s","<","/","b",">","\n">>
u_jk == <<"j","k">>
d_date == <<"2","0","2","3">>

Prefixes == {s_any, s_all_split, s_all_prefix, p_some, p_some_any}
TagWords == {w_aws, w_k8_syn, w_to}
PhraseWords == {edited_questions, questions, answers}
Words == TagWords \cup PhraseWords
Delims == {s_to, s_posts_split, <<>>}
Channels == {c_bold, c_a_to_b, s_comma, c_any, c_all, <<>>}

SeqsUpTo(S, n) == UNION {[1..m -> S] : m \in 0..n}

Cells ==
  [prefix : Prefixes, words : SeqsUpTo(Words, MaxWords), delim : Delims,
   chan : Channels]

Row(type, cell) ==
  [th |-> FALSE, type |-> type, cell |-> cell, creator |-> u_jk,
   creation_date |-> d_date]

\* the header row of the table: th cells, no td
HeaderRow ==
  [th |-> TRUE, type |-> <<>>,
   cell |-> [prefix |-> <<>>, words |-> <<>>, delim |-> <<>>, chan |-> <<>>],
   creator |-> <<>>, creation_date |-> <<>>]

Cell(p, ws, d, c) == [prefix |-> p, words |-> ws, delim |-> d, chan |-> c]

\* the rows of a batch: the examples of lines 138-144 and a malformed one
BatchRows ==
  {HeaderRow,
   Row(t_slack, Cell(s_all_split, <<>>, <<>>, c_a_to_b)),
   Row(t_teams, Cell(s_any, <<w_aws, w_k8_syn>>, s_posts_split, c_bold)),
   Row(t_slack, Cell(s_any, <<w_aws, questions, answers>>, s_to, c_x)),
   Row(t_teams, Cell(s_any, <<edited_questions>>, s_to, c_x)),
   Row(t_slack, Cell(p_some, <<w_aws, questions>>, s_to, c_x))}

\* lines 163-200 for one row that raises nothing: the record of the row
ParseRow(row) ==
  LET d == Description(row)
      rest == AnyParts(d)[2]
      scan == ScanActivities(1, ToParts(rest)[1], <<>>)
  IN IF StartsWith(d, s_all_prefix)
     THEN Webhook(row, AllParts(d)[2], <<s_all>>, activity_types)
     ELSE IF Contains(rest, s_posts_to)
     THEN Webhook(row, ToParts(rest)[2], PostsTags(rest), activity_types)
     ELSE Webhook(row, ToParts(rest)[2], ExplicitTags(scan.description),
                  scan.activities)

(***************************************************************************)
(* process_webhooks: one action per path through the loop body.            *)
(***************************************************************************)
InitLocals ==
  /\ i = 1
  /\ webhooks = <<>>
  /\ description = <<>>
  /\ channel = <<>>
  /\ tags = <<>>
  /\ activities = <<>>
  /\ pc = "loop"

\* one call on a page of one row
Init ==
  /\ webhook_rows \in {<<HeaderRow>>} \cup {<<Row(t_teams, c)>> : c \in Cells}
  /\ InitLocals

\* one call on a page of several rows
InitBatch ==
  /\ webhook_rows \in SeqsUpTo(BatchRows, MaxRows)
  /\ InitLocals

InLoop == pc = "loop" /\ i <= Len(webhook_rows)

\* lines 150-151
SkipHeader ==
  /\ InLoop
  /\ webhook_rows[i].th
  /\ i' = i + 1
  /\ UNCHANGED <<webhook_rows, webhooks, description, channel, tags, activities, pc>>

\* lines 166-169, 193-201
AllPostActivity ==
  /\ InLoop
  /\ ~webhook_rows[i].th
  /\ LET d == Description(webhook_rows[i])
     IN /\ StartsWith(d, s_all_prefix)
        /\ ~RaisesIndexError(d)
        /\ description' = d
        /\ tags' = <<s_all>>
        /\ activities' = activity_types
        /\ channel' = AllParts(d)[2]
  /\ webhooks' = AppendWebhook(webhooks,
                   Webhook(webhook_rows[i], channel', tags', activities'))
  /\ i' = i + 1
  /\ UNCHANGED <<webhook_rows, pc>>

\* lines 170-175, 193-201
PostsTo ==
  /\ InLoop
  /\ ~webhook_rows[i].th
  /\ LET d == Description(webhook_rows[i])
     IN /\ ~StartsWith(d, s_all_prefix)
        /\ ~RaisesIndexError(d)
        /\ Contains(AnyParts(d)[2], s_posts_to)
        /\ description' = AnyParts(d)[2]
        /\ channel' = ToParts(AnyParts(d)[2])[2]
        /\ activities' = activity_types
        /\ tags' = PostsTags(AnyParts(d)[2])
  /\ webhooks' = AppendWebhook(webhooks,
                   Webhook(webhook_rows[i], channel', tags', activities'))
  /\ i' = i + 1
  /\ UNCHANGED <<webhook_rows, pc>>

\* lines 170-172, 176-191, 193-201
ExplicitActivities ==
  /\ InLoop
  /\ ~webhook_rows[i].th
  /\ LET d == Description(webhook_rows[i])
     IN /\ ~StartsWith(d, s_all_prefix)
        /\ ~RaisesIndexError(d)
        /\ ~Contains(AnyParts(d)[2], s_posts_to)
        /\ LET scan == ScanActivities(1, ToParts(AnyParts(d)[2])[1], <<>>)
           IN /\ description' = scan.description
              /\ activities' = scan.activities
              /\ tags' = ExplicitTags(scan.description)
        /\ channel' = ToParts(AnyParts(d)[2])[2]
  /\ webhooks' = AppendWebhook(webhooks,
                   Webhook(webhook_rows[i], channel', tags', activities'))
  /\ i' = i + 1
  /\ UNCHANGED <<webhook_rows, pc>>

\* lines 169, 171, 172: the IndexError leaves process_webhooks, which returns
\* nothing
RaiseIndexError ==
  /\ InLoop
  /\ ~webhook_rows[i].th
  /\ RaisesIndexError(Description(webhook_rows[i]))
  /\ pc' = "raised"
  /\ UNCHANGED <<webhook_rows, i, webhooks, description, channel, tags, activities>>

\* line 203
Return ==
  /\ pc = "loop"
  /\ i > Len(webhook_rows)
  /\ pc' = "returned"
  /\ UNCHANGED <<webhook_rows, i, webhooks, description, channel, tags, activities>>

Next ==
  \/ SkipHeader
  \/ AllPostActivity
  \/ PostsTo
  \/ ExplicitActivities
  \/ RaiseIndexError
  \/ Return

Spec == Init /\ [][Next]_vars

SpecBatch == InitBatch /\ [][Next]_vars

(***************************************************************************)
(* Properties.  The k-th record of webhooks is read against the k-th row   *)
(* of the page that is no header row.                                      *)
(***************************************************************************)
IsDataRow(r) == ~r.th

DataRows == SelectSeq(webhook_rows, IsDataRow)

Records == 1..Len(webhooks)

\* a word as it reads in the normalized description
Token(w) == Strip(Replace(w \o s_space, s_synonyms, <<>>))

Tokens(ws) == [k \in 1..Len(ws) |-> Token(ws[k])]

IsTagWord(w) == ~IsPhrase(w)

TagPart(ws) == SelectSeq(ws, IsTagWord)

PhrasePart(ws) == SelectSeq(ws, IsPhrase)

RECURSIVE JoinSpace(_)
JoinSpace(ts) ==
  IF ts = <<>> THEN <<>>
  ELSE IF Len(ts) = 1 THEN ts[1]
  ELSE ts[1] \o s_space \o JoinSpace(Tail(ts))

\* the text after the first occurrence of sep in s
After(s, sep) == SubSeq(s, Find(s, sep) + Len(sep), Len(s))

\* the text after the prefix p of s
AfterPrefix(s, p) == SubSeq(s, Len(p) + 1, Len(s))

\* "Any <tags> <activity phrases> to <channel>", taking the branch of the
\* explicit activities: one tag or more, none of them the word "to", then
\* one phrase or more, then " to "
ExplicitForm(row) ==
  LET ws == row.cell.words
      d == Description(row)
  IN /\ row.cell.prefix = s_any
     /\ ws = TagPart(ws) \o PhrasePart(ws)
     /\ TagPart(ws) # <<>>
     /\ PhrasePart(ws) # <<>>
     /\ \A k \in 1..Len(ws) : ws[k] # w_to
     /\ StartsWith(d, s_any \o JoinSpace(Tokens(ws)) \o s_to)
     /\ ~Contains(AnyParts(d)[2], s_posts_to)

\* the phrases of the vocabulary that occur in s, in vocabulary order
OccursIn(s) ==
  LET Occurs(p) == Contains(s, p) IN SelectSeq(activity_types, Occurs)

\* the phrases of the vocabulary that are words of ws, in vocabulary order
ListedIn(ws) ==
  LET Listed(p) == \E k \in 1..Len(ws) : ws[k] = p
  IN SelectSeq(activity_types, Listed)

\* C1 as claimed: for every description "Any <tags> <activity phrases> to
\* <channel>" of the explicit branch a record is emitted, its activities are
\* the vocabulary phrases that appear in the description, and its tags are
\* the tokens left of the body.
C1_AsClaimed ==
  /\ \A k \in Records :
       ExplicitForm(DataRows[k]) =>
         /\ webhooks[k].activities = OccursIn(Description(DataRows[k]))
         /\ webhooks[k].tags = Tokens(TagPart(DataRows[k].cell.words))
  /\ pc = "raised" => ~ExplicitForm(webhook_rows[i])

\* C1 as amended: for every description "Any <tags> <activity phrases> to
\* <channel>" of the explicit branch a record is emitted, its activities are
\* the phrases listed in the activity phrase list, in vocabulary order (a
\* phrase that occurs only inside a longer listed phrase is not reported),
\* and its tags are the tag tokens.
C1_ListedActivities ==
  /\ \A k \in Records :
       ExplicitForm(DataRows[k]) =>
         /\ webhooks[k].activities = ListedIn(DataRows[k].cell.words)
         /\ webhooks[k].tags = Tokens(TagPart(DataRows[k].cell.words))
  /\ pc = "raised" => ~ExplicitForm(webhook_rows[i])

C1_Witness ==
  \E k \in Records :
    /\ ExplicitForm(DataRows[k])
    /\ DataRows[k].cell.words = <<w_aws, w_k8_syn, edited_questions>>
    /\ webhooks[k].activities = <<edited_questions>>
    /\ webhooks[k].tags = <<w_aws, w_k8>>

\* "Any <tags> posts to <channel>": one tag or more, no activity phrase
PostsForm(row) ==
  LET ws == row.cell.words
  IN /\ row.cell.prefix = s_any
     /\ ws # <<>>
     /\ \A k \in 1..Len(ws) : IsTagWord(ws[k])
     /\ StartsWith(Description(row),
                   s_any \o JoinSpace(Tokens(ws)) \o s_posts_split)

\* C2: for every description "Any <tags> posts to <channel>" with a non-empty
\* tag list free of activity phrases a record is emitted, its activities are
\* the whole vocabulary in vocabulary order and its tags are the tokens of
\* the tag list, whatever the channel text.
C2_PostsToAllActivities ==
  /\ \A k \in Records :
       PostsForm(DataRows[k]) =>
         /\ webhooks[k].activities = activity_types
         /\ webhooks[k].tags = Tokens(DataRows[k].cell.words)
  /\ pc = "raised" => ~PostsForm(webhook_rows[i])

C2_Witness ==
  \E k \in Records :
    /\ PostsForm(DataRows[k])
    /\ DataRows[k].cell.chan = c_a_to_b
    /\ webhooks[k].tags = <<w_aws, w_to, w_k8>>
    /\ webhooks[k].activities = activity_types

\* C3 as claimed: for every description "All post activity to X" a record is
\* emitted with tags ["all"], the six phrases in vocabulary order, and
\* channel X, the whole remainder after the prefix.
C3_AsClaimed ==
  /\ \A k \in Records :
       StartsWith(Description(DataRows[k]), s_all_split) =>
         /\ webhooks[k].tags = <<s_all>>
         /\ webhooks[k].activities = activity_types
         /\ webhooks[k].channel = AfterPrefix(Description(DataRows[k]), s_all_split)
  /\ pc = "raised" => ~StartsWith(Description(webhook_rows[i]), s_all_split)

\* C4 as claimed: a description that starts with neither "All post activity
\* to " nor "Any " is never parsed into a record.
C4_AsClaimed ==
  \A k \in Records :
    \/ StartsWith(Description(DataRows[k]), s_all_split)
    \/ StartsWith(Description(DataRows[k]), s_any)

\* C5 as claimed: the activities of every emitted record are non-empty.
C5_AsClaimed == \A k \in Records : webhooks[k].activities # <<>>

\* C6 as claimed: the channel of every emitted record is non-empty.
C6_AsClaimed == \A k \in Records : webhooks[k].channel # <<>>

\* C7 as claimed: normalizing the normalized description of a parsed row
\* changes nothing.
C7_AsClaimed ==
  \A k \in Records :
    Normalize(Description(DataRows[k])) = Description(DataRows[k])

\* C8: when process_webhooks returns, webhooks holds one record per row that
\* is no header row, in the order of the rows, each the parse of its own row.
C8_OneRecordPerRowInOrder ==
  pc = "returned" =>
    /\ Len(webhooks) = Len(DataRows)
    /\ \A k \in Records : webhooks[k] = ParseRow(DataRows[k])

C8_Witness ==
  /\ pc = "returned"
  /\ Len(webhook_rows) = 3
  /\ webhook_rows[2].th
  /\ Len(webhooks) = 2
  /\ webhooks[1] # webhooks[2]

\* C9 as claimed: for every parsed description "Any ...", the channel is the
\* whole text right of " posts to " in the posts-to branch and the whole text
\* after the first " to " in the branch of the explicit activities.
C9_AsClaimed ==
  \A k \in Records :
    LET d == Description(DataRows[k])
        rest == AfterPrefix(d, s_any)
    IN StartsWith(d, s_any) =>
         IF Contains(rest, s_posts_to)
         THEN Contains(rest, s_posts_split) =>
                webhooks[k].channel = After(rest, s_posts_split)
         ELSE webhooks[k].channel = After(rest, s_to)

\* C10 as claimed: no tag of an emitted record is the empty string.
C10_AsClaimed ==
  \A k \in Records :
    \A t \in 1..Len(webhooks[k].tags) : webhooks[k].tags[t] # <<>>

====
